---- MODULE Spec2Model ----
(***************************************************************************)
(* The CRM GraphQL mutations and queries of crm/schema.py as a state       *)
(* machine over the three tables Customer, Product and Order.              *)
(*                                                                         *)
(* Strings whose characters matter (phones) are sequences of one-character *)
(* strings, a character outside ASCII being written as its code point      *)
(* ("U+0663"); formatted strings (f-strings) are sequences of their parts. *)
(* Decimal prices are integers counting hundredths.                        *)
(***************************************************************************)
EXTENDS Integers, Sequences, FiniteSets, TLC

VARIABLES
    customers,  \* Customer table: sequence of rows, id = position
    products,   \* Product table: sequence of rows, id = position
    orders,     \* Order table with each order's many-to-many product set
    pc,         \* per request thread: position inside a mutation
    local,      \* per request thread: the mutation's local variables
    resp        \* the last response returned to a caller (with its arguments)

vars == <<customers, products, orders, pc, local, resp>>

\* ------------------------------------------------------------------ bounds

MaxCustomers == 2
MaxProducts == 2
MaxOrders == 1
MaxBatch == 2
MaxIds == 2

\* Request threads that may overlap.
Procs == {"r1", "r2"}

\* ------------------------------------------------------------------ values

\* Optional phone argument / JSON value: absent (None), a string, a number.
PNone == [t |-> "none", s |-> <<>>]
PStr(cs) == [t |-> "str", s |-> cs]
PNum == [t |-> "int", s |-> <<"7">>]
PZero == [t |-> "int", s |-> <<"0">>]

\* Python truthiness of a phone value: None, "" and the number 0 are falsy.
PTruthy(v) ==
    \/ v.t = "str" /\ Len(v.s) > 0
    \/ v.t = "int" /\ v.s # <<"0">>

\* JSON text value of a bulk row key: missing/null or a string.
TNone == [t |-> "none", s |-> ""]
TStr(s) == [t |-> "str", s |-> s]

TTruthy(v) == v.t = "str" /\ v.s # ""

\* ------------------------------------------------------------------ phone regex

MinPlusDigits == 10
MaxPlusDigits == 15
DashGroup1 == 3
DashGroup2 == 3
DashGroup3 == 4

\* \d of a str pattern compiled without re.ASCII: every Unicode decimal
\* digit (category Nd). AsciiDigits are 0-9; OtherDecimalDigits are all the
\* others, 650 characters in Unicode 14.0.0, ten per script, each written as
\* its code point.
AsciiDigits == {"0", "1", "2", "3", "4", "5", "6", "7", "8", "9"}
OtherDecimalDigits ==
    {"U+0660", "U+0661", "U+0662", "U+0663", "U+0664", "U+0665", "U+0666", "U+0667", "U+0668", "U+0669",
     "U+06F0", "U+06F1", "U+06F2", "U+06F3", "U+06F4", "U+06F5", "U+06F6", "U+06F7", "U+06F8", "U+06F9",
     "U+07C0", "U+07C1", "U+07C2", "U+07C3", "U+07C4", "U+07C5", "U+07C6", "U+07C7", "U+07C8", "U+07C9",
     "U+0966", "U+0967", "U+0968", "U+0969", "U+096A", "U+096B", "U+096C", "U+096D", "U+096E", "U+096F",
     "U+09E6", "U+09E7", "U+09E8", "U+09E9", "U+09EA", "U+09EB", "U+09EC", "U+09ED", "U+09EE", "U+09EF",
     "U+0A66", "U+0A67", "U+0A68", "U+0A69", "U+0A6A", "U+0A6B", "U+0A6C", "U+0A6D", "U+0A6E", "U+0A6F",
     "U+0AE6", "U+0AE7", "U+0AE8", "U+0AE9", "U+0AEA", "U+0AEB", "U+0AEC", "U+0AED", "U+0AEE", "U+0AEF",
     "U+0B66", "U+0B67", "U+0B68", "U+0B69", "U+0B6A", "U+0B6B", "U+0B6C", "U+0B6D", "U+0B6E", "U+0B6F",
     "U+0BE6", "U+0BE7", "U+0BE8", "U+0BE9", "U+0BEA", "U+0BEB", "U+0BEC", "U+0BED", "U+0BEE", "U+0BEF",
     "U+0C66", "U+0C67", "U+0C68", "U+0C69", "U+0C6A", "U+0C6B", "U+0C6C", "U+0C6D", "U+0C6E", "U+0C6F",
     "U+0CE6", "U+0CE7", "U+0CE8", "U+0CE9", "U+0CEA", "U+0CEB", "U+0CEC", "U+0CED", "U+0CEE", "U+0CEF",
     "U+0D66", "U+0D67", "U+0D68", "U+0D69", "U+0D6A", "U+0D6B", "U+0D6C", "U+0D6D", "U+0D6E", "U+0D6F",
     "U+0DE6", "U+0DE7", "U+0DE8", "U+0DE9", "U+0DEA", "U+0DEB", "U+0DEC", "U+0DED", "U+0DEE", "U+0DEF",
     "U+0E50", "U+0E51", "U+0E52", "U+0E53", "U+0E54", "U+0E55", "U+0E56", "U+0E57", "U+0E58", "U+0E59",
     "U+0ED0", "U+0ED1", "U+0ED2", "U+0ED3", "U+0ED4", "U+0ED5", "U+0ED6", "U+0ED7", "U+0ED8", "U+0ED9",
     "U+0F20", "U+0F21", "U+0F22", "U+0F23", "U+0F24", "U+0F25", "U+0F26", "U+0F27", "U+0F28", "U+0F29",
     "U+1040", "U+1041", "U+1042", "U+1043", "U+1044", "U+1045", "U+1046", "U+1047", "U+1048", "U+1049",
     "U+1090", "U+1091", "U+1092", "U+1093", "U+1094", "U+1095", "U+1096", "U+1097", "U+1098", "U+1099",
     "U+17E0", "U+17E1", "U+17E2", "U+17E3", "U+17E4", "U+17E5", "U+17E6", "U+17E7", "U+17E8", "U+17E9",
     "U+1810", "U+1811", "U+1812", "U+1813", "U+1814", "U+1815", "U+1816", "U+1817", "U+1818", "U+1819",
     "U+1946", "U+1947", "U+1948", "U+1949", "U+194A", "U+194B", "U+194C", "U+194D", "U+194E", "U+194F",
     "U+19D0", "U+19D1", "U+19D2", "U+19D3", "U+19D4", "U+19D5", "U+19D6", "U+19D7", "U+19D8", "U+19D9",
     "U+1A80", "U+1A81", "U+1A82", "U+1A83", "U+1A84", "U+1A85", "U+1A86", "U+1A87", "U+1A88", "U+1A89",
     "U+1A90", "U+1A91", "U+1A92", "U+1A93", "U+1A94", "U+1A95", "U+1A96", "U+1A97", "U+1A98", "U+1A99",
     "U+1B50", "U+1B51", "U+1B52", "U+1B53", "U+1B54", "U+1B55", "U+1B56", "U+1B57", "U+1B58", "U+1B59",
     "U+1BB0", "U+1BB1", "U+1BB2", "U+1BB3", "U+1BB4", "U+1BB5", "U+1BB6", "U+1BB7", "U+1BB8", "U+1BB9",
     "U+1C40", "U+1C41", "U+1C42", "U+1C43", "U+1C44", "U+1C45", "U+1C46", "U+1C47", "U+1C48", "U+1C49",
     "U+1C50", "U+1C51", "U+1C52", "U+1C53", "U+1C54", "U+1C55", "U+1C56", "U+1C57", "U+1C58", "U+1C59",
     "U+A620", "U+A621", "U+A622", "U+A623", "U+A624", "U+A625", "U+A626", "U+A627", "U+A628", "U+A629",
     "U+A8D0", "U+A8D1", "U+A8D2", "U+A8D3", "U+A8D4", "U+A8D5", "U+A8D6", "U+A8D7", "U+A8D8", "U+A8D9",
     "U+A900", "U+A901", "U+A902", "U+A903", "U+A904", "U+A905", "U+A906", "U+A907", "U+A908", "U+A909",
     "U+A9D0", "U+A9D1", "U+A9D2", "U+A9D3", "U+A9D4", "U+A9D5", "U+A9D6", "U+A9D7", "U+A9D8", "U+A9D9",
     "U+A9F0", "U+A9F1", "U+A9F2", "U+A9F3", "U+A9F4", "U+A9F5", "U+A9F6", "U+A9F7", "U+A9F8", "U+A9F9",
     "U+AA50", "U+AA51", "U+AA52", "U+AA53", "U+AA54", "U+AA55", "U+AA56", "U+AA57", "U+AA58", "U+AA59",
     "U+ABF0", "U+ABF1", "U+ABF2", "U+ABF3", "U+ABF4", "U+ABF5", "U+ABF6", "U+ABF7", "U+ABF8", "U+ABF9",
     "U+FF10", "U+FF11", "U+FF12", "U+FF13", "U+FF14", "U+FF15", "U+FF16", "U+FF17", "U+FF18", "U+FF19",
     "U+104A0", "U+104A1", "U+104A2", "U+104A3", "U+104A4", "U+104A5", "U+104A6", "U+104A7", "U+104A8", "U+104A9",
     "U+10D30", "U+10D31", "U+10D32", "U+10D33", "U+10D34", "U+10D35", "U+10D36", "U+10D37", "U+10D38", "U+10D39",
     "U+11066", "U+11067", "U+11068", "U+11069", "U+1106A", "U+1106B", "U+1106C", "U+1106D", "U+1106E", "U+1106F",
     "U+110F0", "U+110F1", "U+110F2", "U+110F3", "U+110F4", "U+110F5", "U+110F6", "U+110F7", "U+110F8", "U+110F9",
     "U+11136", "U+11137", "U+11138", "U+11139", "U+1113A", "U+1113B", "U+1113C", "U+1113D", "U+1113E", "U+1113F",
     "U+111D0", "U+111D1", "U+111D2", "U+111D3", "U+111D4", "U+111D5", "U+111D6", "U+111D7", "U+111D8", "U+111D9",
     "U+112F0", "U+112F1", "U+112F2", "U+112F3", "U+112F4", "U+112F5", "U+112F6", "U+112F7", "U+112F8", "U+112F9",
     "U+11450", "U+11451", "U+11452", "U+11453", "U+11454", "U+11455", "U+11456", "U+11457", "U+11458", "U+11459",
     "U+114D0", "U+114D1", "U+114D2", "U+114D3", "U+114D4", "U+114D5", "U+114D6", "U+114D7", "U+114D8", "U+114D9",
     "U+11650", "U+11651", "U+11652", "U+11653", "U+11654", "U+11655", "U+11656", "U+11657", "U+11658", "U+11659",
     "U+116C0", "U+116C1", "U+116C2", "U+116C3", "U+116C4", "U+116C5", "U+116C6", "U+116C7", "U+116C8", "U+116C9",
     "U+11730", "U+11731", "U+11732", "U+11733", "U+11734", "U+11735", "U+11736", "U+11737", "U+11738", "U+11739",
     "U+118E0", "U+118E1", "U+118E2", "U+118E3", "U+118E4", "U+118E5", "U+118E6", "U+118E7", "U+118E8", "U+118E9",
     "U+11950", "U+11951", "U+11952", "U+11953", "U+11954", "U+11955", "U+11956", "U+11957", "U+11958", "U+11959",
     "U+11C50", "U+11C51", "U+11C52", "U+11C53", "U+11C54", "U+11C55", "U+11C56", "U+11C57", "U+11C58", "U+11C59",
     "U+11D50", "U+11D51", "U+11D52", "U+11D53", "U+11D54", "U+11D55", "U+11D56", "U+11D57", "U+11D58", "U+11D59",
     "U+11DA0", "U+11DA1", "U+11DA2", "U+11DA3", "U+11DA4", "U+11DA5", "U+11DA6", "U+11DA7", "U+11DA8", "U+11DA9",
     "U+16A60", "U+16A61", "U+16A62", "U+16A63", "U+16A64", "U+16A65", "U+16A66", "U+16A67", "U+16A68", "U+16A69",
     "U+16AC0", "U+16AC1", "U+16AC2", "U+16AC3", "U+16AC4", "U+16AC5", "U+16AC6", "U+16AC7", "U+16AC8", "U+16AC9",
     "U+16B50", "U+16B51", "U+16B52", "U+16B53", "U+16B54", "U+16B55", "U+16B56", "U+16B57", "U+16B58", "U+16B59",
     "U+1D7CE", "U+1D7CF", "U+1D7D0", "U+1D7D1", "U+1D7D2", "U+1D7D3", "U+1D7D4", "U+1D7D5", "U+1D7D6", "U+1D7D7",
     "U+1D7D8", "U+1D7D9", "U+1D7DA", "U+1D7DB", "U+1D7DC", "U+1D7DD", "U+1D7DE", "U+1D7DF", "U+1D7E0", "U+1D7E1",
     "U+1D7E2", "U+1D7E3", "U+1D7E4", "U+1D7E5", "U+1D7E6", "U+1D7E7", "U+1D7E8", "U+1D7E9", "U+1D7EA", "U+1D7EB",
     "U+1D7EC", "U+1D7ED", "U+1D7EE", "U+1D7EF", "U+1D7F0", "U+1D7F1", "U+1D7F2", "U+1D7F3", "U+1D7F4", "U+1D7F5",
     "U+1D7F6", "U+1D7F7", "U+1D7F8", "U+1D7F9", "U+1D7FA", "U+1D7FB", "U+1D7FC", "U+1D7FD", "U+1D7FE", "U+1D7FF",
     "U+1E140", "U+1E141", "U+1E142", "U+1E143", "U+1E144", "U+1E145", "U+1E146", "U+1E147", "U+1E148", "U+1E149",
     "U+1E2F0", "U+1E2F1", "U+1E2F2", "U+1E2F3", "U+1E2F4", "U+1E2F5", "U+1E2F6", "U+1E2F7", "U+1E2F8", "U+1E2F9",
     "U+1E950", "U+1E951", "U+1E952", "U+1E953", "U+1E954", "U+1E955", "U+1E956", "U+1E957", "U+1E958", "U+1E959",
     "U+1FBF0", "U+1FBF1", "U+1FBF2", "U+1FBF3", "U+1FBF4", "U+1FBF5", "U+1FBF6", "U+1FBF7", "U+1FBF8", "U+1FBF9"}
IsDigit(c) == c \in AsciiDigits \/ c \in OtherDecimalDigits

AllDigits(s, from, to) == \A i \in from..to : IsDigit(s[i])

\* Python's $ (no MULTILINE): at the end of the string, or just before a
\* newline that is the last character.
AtDollar(s, k) == k = Len(s) \/ (k = Len(s) - 1 /\ s[Len(s)] = "\n")

\* \+\d{10,15} followed by $, with backtracking over the digit count.
MatchPlusForm(s) ==
    /\ Len(s) >= 1
    /\ s[1] = "+"
    /\ \E n \in MinPlusDigits..MaxPlusDigits :
          /\ Len(s) >= n + 1
          /\ AllDigits(s, 2, n + 1)
          /\ AtDollar(s, n + 1)

\* \d{3}-\d{3}-\d{4} followed by $.
MatchDashForm(s) ==
    LET a == DashGroup1
        b == DashGroup1 + 1 + DashGroup2
        c == DashGroup1 + 1 + DashGroup2 + 1 + DashGroup3
    IN  /\ Len(s) >= c
        /\ AllDigits(s, 1, a)
        /\ s[a + 1] = "-"
        /\ AllDigits(s, a + 2, b)
        /\ s[b + 1] = "-"
        /\ AllDigits(s, b + 2, c)
        /\ AtDollar(s, c)

\* re.match(r'^(\+\d{10,15}|\d{3}-\d{3}-\d{4})$', phone) is not None
PhoneMatch(s) == MatchPlusForm(s) \/ MatchDashForm(s)

\* ------------------------------------------------------------------ Customer table

\* Customer.objects.filter(email=email).exists()
EmailExists(custs, email) == \E i \in 1..Len(custs) : custs[i].email = email

\* Customer(name=..., email=..., phone=...) followed by customer.save():
\* a new row with the next id; the table states no uniqueness of its own.
NewCustomer(custs, name, email, phone) ==
    [id |-> Len(custs) + 1, name |-> name, email |-> email, phone |-> phone]

CustomerSave(custs, c) == Append(custs, c)

NoCustomer == [id |-> 0, name |-> "", email |-> "", phone |-> PNone]

MsgEmailExists == "Email already exists"
MsgInvalidPhone == "Invalid phone format. Use +1234567890 or 123-456-7890"
MsgCustomerCreated == "Customer created successfully"

\* The phone check alone: the existence check left out.
CreateCustomerCheck_PhoneOnly(custs, email, phone) ==
    IF PTruthy(phone) /\ ~PhoneMatch(phone.s) THEN MsgInvalidPhone ELSE ""

\* The two checks of CreateCustomer.mutate, in the code's order; "" when both pass.
CreateCustomerCheck(custs, email, phone) ==
    IF EmailExists(custs, email) THEN MsgEmailExists
    ELSE IF PTruthy(phone) /\ ~PhoneMatch(phone.s) THEN MsgInvalidPhone
    ELSE ""

CreateCustomerError(name, email, phone, msg) ==
    [op |-> "createCustomer", name |-> name, email |-> email, phone |-> phone,
     ok |-> FALSE, message |-> msg, customer |-> NoCustomer]

CreateCustomerOk(name, email, phone, c) ==
    [op |-> "createCustomer", name |-> name, email |-> email, phone |-> phone,
     ok |-> TRUE, message |-> MsgCustomerCreated, customer |-> c]

\* CreateCustomer.mutate, run without overlap.
CreateCustomer(name, email, phone) ==
    /\ LET msg == CreateCustomerCheck(customers, email, phone)
           c == NewCustomer(customers, name, email, phone)
       IN  IF msg # ""
           THEN /\ customers' = customers
                /\ resp' = CreateCustomerError(name, email, phone, msg)
           ELSE /\ Len(customers) < MaxCustomers
                /\ customers' = CustomerSave(customers, c)
                /\ resp' = CreateCustomerOk(name, email, phone, c)
    /\ UNCHANGED <<products, orders, pc, local>>

\* ------------------------------------------------------------------ BulkCreateCustomers

\* A decoded JSONString element: a mapping with keys name, email, phone
\* (a missing key reads as None), or a JSON value that is no mapping.
Row(name, email, phone) ==
    [kind |-> "object", name |-> name, email |-> email, phone |-> phone]
NotAMapping == [kind |-> "number", name |-> TNone, email |-> TNone, phone |-> PNone]

\* f"Row {i+1}: <reason>" as its parts.
RowError(n, reason) == <<"Row ", ToString(n), ": ", reason>>

\* str(e) of the AttributeError raised by item.get on a non-mapping.
MsgNoGet == <<"'int' object has no attribute 'get'">>
\* str(e) of the TypeError raised by re.match on a non-string phone, as
\* Python 3.11 and later word it (earlier versions stop before the comma).
MsgNotString == <<"expected string or bytes-like object, got 'int'">>

\* One iteration of the loop body for the n-th row (n = i + 1): the
\* customer saved, or the string appended to errors.
BulkRow(custs, item, n) ==
    IF item.kind # "object" THEN [ok |-> FALSE, error |-> MsgNoGet]
    ELSE IF ~TTruthy(item.name) \/ ~TTruthy(item.email)
    THEN [ok |-> FALSE, error |-> RowError(n, "Name and email are required")]
    ELSE IF EmailExists(custs, item.email.s)
    THEN [ok |-> FALSE, error |-> RowError(n, "Email already exists")]
    ELSE IF PTruthy(item.phone) /\ item.phone.t # "str"
    THEN [ok |-> FALSE, error |-> MsgNotString]
    ELSE IF PTruthy(item.phone) /\ ~PhoneMatch(item.phone.s)
    THEN [ok |-> FALSE, error |-> RowError(n, "Invalid phone format")]
    ELSE [ok |-> TRUE,
          customer |-> NewCustomer(custs, item.name.s, item.email.s, item.phone)]

\* The loop with every row checked against the table as it stood before the
\* batch, not as it stands when the row is reached.
RECURSIVE BulkLoop_Snapshot(_, _, _)
BulkLoop_Snapshot(input, n, st) ==
    IF n > Len(input) THEN st
    ELSE LET before == SubSeq(st.custs, 1, Len(st.custs) - Len(st.valid))
             r == BulkRow(before, input[n], n)
         IN  IF r.ok
             THEN BulkLoop_Snapshot(input, n + 1,
                    [custs |-> CustomerSave(st.custs,
                                  [r.customer EXCEPT !.id = Len(st.custs) + 1]),
                     valid |-> Append(st.valid,
                                  [r.customer EXCEPT !.id = Len(st.custs) + 1]),
                     errors |-> st.errors,
                     saved |-> Append(st.saved, TRUE)])
             ELSE BulkLoop_Snapshot(input, n + 1,
                    [custs |-> st.custs,
                     valid |-> st.valid,
                     errors |-> Append(st.errors, r.error),
                     saved |-> Append(st.saved, FALSE)])

\* The for loop from row n on: st holds the table, valid_customers,
\* errors and (for the record) whether each row was saved.
RECURSIVE BulkLoop(_, _, _)
BulkLoop(input, n, st) ==
    IF n > Len(input) THEN st
    ELSE LET r == BulkRow(st.custs, input[n], n)
         IN  IF r.ok
             THEN BulkLoop(input, n + 1,
                    [custs |-> CustomerSave(st.custs, r.customer),
                     valid |-> Append(st.valid, r.customer),
                     errors |-> st.errors,
                     saved |-> Append(st.saved, TRUE)])
             ELSE BulkLoop(input, n + 1,
                    [custs |-> st.custs,
                     valid |-> st.valid,
                     errors |-> Append(st.errors, r.error),
                     saved |-> Append(st.saved, FALSE)])

BulkResult(custs, input) ==
    BulkLoop(input, 1, [custs |-> custs, valid |-> <<>>, errors |-> <<>>, saved |-> <<>>])

\* BulkCreateCustomers.mutate, run without overlap.
BulkCreateCustomers(input) ==
    /\ Len(customers) + Len(input) <= MaxCustomers
    /\ LET out == BulkResult(customers, input)
       IN  /\ customers' = out.custs
           /\ resp' = [op |-> "bulkCreateCustomers", input |-> input,
                       customers |-> out.valid, errors |-> out.errors,
                       saved |-> out.saved]
    /\ UNCHANGED <<products, orders, pc, local>>

\* ------------------------------------------------------------------ CreateProduct

\* An optional Int argument: given with a value, or left out of the call.
Given(v) == [given |-> TRUE, v |-> v]
Omitted == [given |-> FALSE, v |-> 0]

\* stock = graphene.Int(default_value=0)
StockDefault == 0
StockArgument(arg) == IF arg.given THEN arg.v ELSE StockDefault

\* Decimal(price): the exact value of the float, in hundredths. The prices
\* used are floats that are exact in binary (10.0, 5.5, 0.25, 0.0, -5.0).
ToDecimal(price) == price

MsgPricePositive == "Price must be a positive number"
MsgStockNonNegative == "Stock must be a non-negative integer"

\* The checks with price < 0 in place of price <= 0.
CreateProductCheck_ZeroPrice(price, stock) ==
    IF price < 0 THEN MsgPricePositive
    ELSE IF stock < 0 THEN MsgStockNonNegative
    ELSE ""

\* The two checks of CreateProduct.mutate, in the code's order; "" when both pass.
CreateProductCheck(price, stock) ==
    IF price <= 0 THEN MsgPricePositive
    ELSE IF stock < 0 THEN MsgStockNonNegative
    ELSE ""

NewProduct(prods, name, price, stock) ==
    [id |-> Len(prods) + 1, name |-> name, price |-> ToDecimal(price), stock |-> stock]

\* product.save(): the row is added as constructed.
ProductSave(prods, prod) == Append(prods, prod)

NoProduct == [id |-> 0, name |-> "", price |-> 0, stock |-> 0]

\* CreateProduct.mutate.
CreateProduct(name, price, stockArg) ==
    /\ LET stock == StockArgument(stockArg)
           msg == CreateProductCheck(price, stock)
           prod == NewProduct(products, name, price, stock)
       IN  IF msg # ""
           THEN /\ products' = products
                /\ resp' = [op |-> "createProduct", name |-> name, price |-> price,
                            stock |-> stockArg, ok |-> FALSE, message |-> msg,
                            product |-> NoProduct]
           ELSE /\ Len(products) < MaxProducts
                /\ products' = ProductSave(products, prod)
                /\ resp' = [op |-> "createProduct", name |-> name, price |-> price,
                            stock |-> stockArg, ok |-> TRUE, message |-> "",
                            product |-> prod]
    /\ UNCHANGED <<customers, orders, pc, local>>

\* ------------------------------------------------------------------ CreateOrder

\* Customer.objects.get(id=customer_id) / Product.objects.get(id=pid) find a row.
CustomerFound(custs, id) == id \in 1..Len(custs)
ProductFound(prods, id) == id \in 1..Len(prods)

MsgInvalidCustomer == <<"Invalid customer ID">>
MsgNoProducts == <<"At least one product must be selected">>
\* f"Invalid product ID: {pid}" as its parts.
MsgInvalidProduct(pid) == <<"Invalid product ID: ", ToString(pid)>>

\* One iteration of the for loop over product_ids: Product.objects.get,
\* then the product appended and its price added, or the id that does not
\* resolve.
ResolveProduct(prods, pid, acc) ==
    IF ProductFound(prods, pid)
    THEN [ok |-> TRUE, bad |-> 0,
          list |-> Append(acc.list, pid),
          total |-> acc.total + prods[pid].price]
    ELSE [ok |-> FALSE, bad |-> pid, list |-> acc.list, total |-> acc.total]

\* The loop passing over an id that does not resolve instead of raising.
RECURSIVE ResolveProducts_SkipMissing(_, _, _, _)
ResolveProducts_SkipMissing(prods, pids, i, acc) ==
    IF i > Len(pids) THEN acc
    ELSE IF ProductFound(prods, pids[i])
    THEN ResolveProducts_SkipMissing(prods, pids, i + 1,
            [ok |-> TRUE, bad |-> 0,
             list |-> Append(acc.list, pids[i]),
             total |-> acc.total + prods[pids[i]].price])
    ELSE ResolveProducts_SkipMissing(prods, pids, i + 1, acc)

\* The for loop over product_ids from position i on: the products list and
\* the running total, or the first id that does not resolve.
RECURSIVE ResolveProducts(_, _, _, _)
ResolveProducts(prods, pids, i, acc) ==
    IF i > Len(pids) THEN acc
    ELSE LET r == ResolveProduct(prods, pids[i], acc)
         IN  IF r.ok THEN ResolveProducts(prods, pids, i + 1, r) ELSE r

\* The checks with the empty list looked at before the customer.
CreateOrderCheck_ProductsFirst(custs, prods, cid, pids) ==
    LET r == ResolveProducts(prods, pids, 1,
                [ok |-> TRUE, bad |-> 0, list |-> <<>>, total |-> 0])
    IN  IF pids = <<>>
        THEN [msg |-> MsgNoProducts, list |-> <<>>, total |-> 0]
        ELSE IF ~CustomerFound(custs, cid)
        THEN [msg |-> MsgInvalidCustomer, list |-> <<>>, total |-> 0]
        ELSE IF ~r.ok
        THEN [msg |-> MsgInvalidProduct(r.bad), list |-> <<>>, total |-> 0]
        ELSE [msg |-> <<>>, list |-> r.list, total |-> r.total]

\* Everything CreateOrder.mutate does before it writes: the error raised
\* ("" for none), and the resolved products and total.
CreateOrderCheck(custs, prods, cid, pids) ==
    LET r == ResolveProducts(prods, pids, 1,
                [ok |-> TRUE, bad |-> 0, list |-> <<>>, total |-> 0])
    IN  IF ~CustomerFound(custs, cid)
        THEN [msg |-> MsgInvalidCustomer, list |-> <<>>, total |-> 0]
        ELSE IF pids = <<>>
        THEN [msg |-> MsgNoProducts, list |-> <<>>, total |-> 0]
        ELSE IF ~r.ok
        THEN [msg |-> MsgInvalidProduct(r.bad), list |-> <<>>, total |-> 0]
        ELSE [msg |-> <<>>, list |-> r.list, total |-> r.total]

\* Order(customer=customer, total_amount=total) and the optional order_date
\* ("" when not supplied, the table then fills in its default): no product
\* is associated yet.
NewOrder(ords, cid, total, date) ==
    [id |-> Len(ords) + 1, customer |-> cid, total_amount |-> total,
     order_date |-> IF date # "" THEN date ELSE "default", products |-> {}]

\* order.save(): the row is added as constructed.
OrderSave(ords, o) == Append(ords, o)

\* order.products.set(products): the many-to-many relation holds each
\* product of the list once.
ProductsSet(ords, oid, list) ==
    [ords EXCEPT ![oid].products = {list[i] : i \in 1..Len(list)}]

NoOrder == [id |-> 0, customer |-> 0, total_amount |-> 0, order_date |-> "", products |-> {}]

CreateOrderResponse(cid, pids, date, msg, order) ==
    [op |-> "createOrder", customer_id |-> cid, product_ids |-> pids,
     order_date |-> date, ok |-> (msg = <<>>), message |-> msg, order |-> order]

\* CreateOrder.mutate, run without overlap.
CreateOrder(cid, pids, date) ==
    /\ LET chk == CreateOrderCheck(customers, products, cid, pids)
           saved == OrderSave(orders, NewOrder(orders, cid, chk.total, date))
           done == ProductsSet(saved, Len(saved), chk.list)
       IN  IF chk.msg # <<>>
           THEN /\ orders' = orders
                /\ resp' = CreateOrderResponse(cid, pids, date, chk.msg, NoOrder)
           ELSE /\ Len(orders) < MaxOrders
                /\ orders' = done
                /\ resp' = CreateOrderResponse(cid, pids, date, <<>>, done[Len(done)])
    /\ UNCHANGED <<customers, products, pc, local>>

\* ------------------------------------------------------------------ overlapping requests

\* The local variables of a request thread.
NoLocal ==
    [name |-> "", email |-> "", phone |-> PNone,
     input |-> <<>>, i |-> 0, valid |-> <<>>, errors |-> <<>>, saved |-> <<>>,
     customer_id |-> 0, product_ids |-> <<>>, order_date |-> "",
     products |-> <<>>, total |-> 0, order |-> 0,
     rows |-> <<>>, result |-> <<>>]

\* Rows that requests which have passed their checks are about to add.
PendingSaves == Cardinality({p \in Procs : pc[p] \in {"cc_save", "bk_save"}})

\* CreateCustomer.mutate up to its last check: the existence query reads the
\* table, the phone check follows on the arguments alone.
CC_Begin(p, name, email, phone) ==
    /\ pc[p] = "idle"
    /\ LET msg == CreateCustomerCheck(customers, email, phone)
       IN  IF msg # ""
           THEN /\ resp' = CreateCustomerError(name, email, phone, msg)
                /\ UNCHANGED <<pc, local>>
           ELSE /\ Len(customers) + PendingSaves < MaxCustomers
                /\ pc' = [pc EXCEPT ![p] = "cc_save"]
                /\ local' = [local EXCEPT ![p] =
                                [NoLocal EXCEPT !.name = name, !.email = email,
                                                !.phone = phone]]
                /\ resp' = resp
    /\ UNCHANGED <<customers, products, orders>>

\* A save that asks the table again and refuses a stored email.
CC_Save_Recheck(p) ==
    /\ pc[p] = "cc_save"
    /\ LET c == NewCustomer(customers, local[p].name, local[p].email, local[p].phone)
       IN  IF EmailExists(customers, local[p].email)
           THEN /\ customers' = customers
                /\ resp' = CreateCustomerError(c.name, c.email, c.phone, MsgEmailExists)
           ELSE /\ customers' = CustomerSave(customers, c)
                /\ resp' = CreateCustomerOk(c.name, c.email, c.phone, c)
    /\ pc' = [pc EXCEPT ![p] = "idle"]
    /\ local' = [local EXCEPT ![p] = NoLocal]
    /\ UNCHANGED <<products, orders>>

\* The rest of CreateCustomer.mutate: construct, save, return.
CC_Save(p) ==
    /\ pc[p] = "cc_save"
    /\ LET c == NewCustomer(customers, local[p].name, local[p].email, local[p].phone)
       IN  /\ customers' = CustomerSave(customers, c)
           /\ resp' = CreateCustomerOk(c.name, c.email, c.phone, c)
    /\ pc' = [pc EXCEPT ![p] = "idle"]
    /\ local' = [local EXCEPT ![p] = NoLocal]
    /\ UNCHANGED <<products, orders>>

\* BulkCreateCustomers.mutate up to the loop: the two empty lists.
BK_Begin(p, input) ==
    /\ pc[p] = "idle"
    /\ pc' = [pc EXCEPT ![p] = "bk_row"]
    /\ local' = [local EXCEPT ![p] = [NoLocal EXCEPT !.input = input, !.i = 1]]
    /\ UNCHANGED <<customers, products, orders, resp>>

\* One row of the loop up to its last check: the existence query reads the
\* table as it stands now; a row that fails has its error appended and the
\* loop goes on.
BK_Check(p) ==
    /\ pc[p] = "bk_row"
    /\ local[p].i <= Len(local[p].input)
    /\ LET l == local[p]
           r == BulkRow(customers, l.input[l.i], l.i)
       IN  IF ~r.ok
           THEN /\ local' = [local EXCEPT ![p].errors = Append(l.errors, r.error),
                                          ![p].saved = Append(l.saved, FALSE),
                                          ![p].i = l.i + 1]
                /\ pc' = pc
           ELSE /\ Len(customers) + PendingSaves < MaxCustomers
                /\ local' = [local EXCEPT ![p].name = r.customer.name,
                                          ![p].email = r.customer.email,
                                          ![p].phone = r.customer.phone]
                /\ pc' = [pc EXCEPT ![p] = "bk_save"]
    /\ UNCHANGED <<customers, products, orders, resp>>

\* The rest of the row: construct, save, append to valid_customers.
BK_Save(p) ==
    /\ pc[p] = "bk_save"
    /\ LET l == local[p]
           c == NewCustomer(customers, l.name, l.email, l.phone)
       IN  /\ customers' = CustomerSave(customers, c)
           /\ local' = [local EXCEPT ![p].valid = Append(l.valid, c),
                                     ![p].saved = Append(l.saved, TRUE),
                                     ![p].i = l.i + 1]
    /\ pc' = [pc EXCEPT ![p] = "bk_row"]
    /\ UNCHANGED <<products, orders, resp>>

\* After the last row: return the two lists.
BK_Return(p) ==
    /\ pc[p] = "bk_row"
    /\ local[p].i > Len(local[p].input)
    /\ resp' = [op |-> "bulkCreateCustomers", input |-> local[p].input,
                customers |-> local[p].valid, errors |-> local[p].errors,
                saved |-> local[p].saved]
    /\ pc' = [pc EXCEPT ![p] = "idle"]
    /\ local' = [local EXCEPT ![p] = NoLocal]
    /\ UNCHANGED <<customers, products, orders>>

\* CreateOrder.mutate up to the loop: Customer.objects.get reads the table,
\* the empty-list check follows on the arguments alone.
CO_Begin(p, cid, pids, date) ==
    /\ pc[p] = "idle"
    /\ IF ~CustomerFound(customers, cid)
       THEN /\ resp' = CreateOrderResponse(cid, pids, date, MsgInvalidCustomer, NoOrder)
            /\ UNCHANGED <<pc, local>>
       ELSE IF pids = <<>>
       THEN /\ resp' = CreateOrderResponse(cid, pids, date, MsgNoProducts, NoOrder)
            /\ UNCHANGED <<pc, local>>
       ELSE /\ pc' = [pc EXCEPT ![p] = "co_product"]
            /\ local' = [local EXCEPT ![p] =
                            [NoLocal EXCEPT !.customer_id = cid,
                                            !.product_ids = pids,
                                            !.order_date = date,
                                            !.i = 1]]
            /\ resp' = resp
    /\ UNCHANGED <<customers, products, orders>>

\* One iteration of the loop over product_ids: Product.objects.get reads the
\* table as it stands now.
CO_GetProduct(p) ==
    /\ pc[p] = "co_product"
    /\ LET l == local[p]
           r == ResolveProduct(products, l.product_ids[l.i],
                    [ok |-> TRUE, bad |-> 0, list |-> l.products, total |-> l.total])
       IN  IF ~r.ok
           THEN /\ resp' = CreateOrderResponse(l.customer_id, l.product_ids,
                               l.order_date, MsgInvalidProduct(r.bad), NoOrder)
                /\ pc' = [pc EXCEPT ![p] = "idle"]
                /\ local' = [local EXCEPT ![p] = NoLocal]
           ELSE /\ resp' = resp
                /\ pc' = [pc EXCEPT ![p] =
                             IF l.i = Len(l.product_ids) THEN "co_save" ELSE "co_product"]
                /\ local' = [local EXCEPT ![p].products = r.list,
                                          ![p].total = r.total,
                                          ![p].i = l.i + 1]
    /\ UNCHANGED <<customers, products, orders>>

\* Order(...), the optional order_date, order.save(): the row is in the
\* table with no product associated yet.
CO_Save(p) ==
    /\ pc[p] = "co_save"
    /\ Len(orders) < MaxOrders
    /\ orders' = OrderSave(orders, NewOrder(orders, local[p].customer_id,
                                            local[p].total, local[p].order_date))
    /\ pc' = [pc EXCEPT ![p] = "co_set"]
    /\ local' = [local EXCEPT ![p].order = Len(orders) + 1]
    /\ UNCHANGED <<customers, products, resp>>

\* The rest of CreateOrder.mutate: order.products.set(products), return.
CO_SetProducts(p) ==
    /\ pc[p] = "co_set"
    /\ orders' = ProductsSet(orders, local[p].order, local[p].products)
    /\ resp' = CreateOrderResponse(local[p].customer_id, local[p].product_ids,
                                   local[p].order_date, <<>>, orders'[local[p].order])
    /\ pc' = [pc EXCEPT ![p] = "idle"]
    /\ local' = [local EXCEPT ![p] = NoLocal]
    /\ UNCHANGED <<customers, products>>

\* ------------------------------------------------------------------ queries

\* Query.resolve_customers / resolve_products: the rows of the table, read
\* by one query when the returned QuerySet is iterated.
resolve_customers ==
    /\ resp' = [op |-> "customers", result |-> customers]
    /\ UNCHANGED <<customers, products, orders, pc, local>>

resolve_products ==
    /\ resp' = [op |-> "products", result |-> products]
    /\ UNCHANGED <<customers, products, orders, pc, local>>

\* Query.resolve_orders: the order rows, read by one query when the returned
\* QuerySet is iterated; the products of each order are not yet read.
resolve_orders(p) ==
    /\ pc[p] = "idle"
    /\ IF orders = <<>>
       THEN /\ resp' = [op |-> "orders", result |-> <<>>]
            /\ UNCHANGED <<pc, local>>
       ELSE /\ pc' = [pc EXCEPT ![p] = "ro_products"]
            /\ local' = [local EXCEPT ![p] =
                            [NoLocal EXCEPT
                                !.rows = [k \in 1..Len(orders) |->
                                             [orders[k] EXCEPT !.products = {}]],
                                !.i = 1]]
            /\ resp' = resp
    /\ UNCHANGED <<customers, products, orders>>

\* OrderType's products field of the next order row: a further query, which
\* reads the relation as it stands now; after the last row the response.
OrderProducts(p) ==
    /\ pc[p] = "ro_products"
    /\ LET l == local[p]
           row == [l.rows[l.i] EXCEPT !.products = orders[l.rows[l.i].id].products]
           result == Append(l.result, row)
       IN  IF l.i = Len(l.rows)
           THEN /\ resp' = [op |-> "orders", result |-> result]
                /\ pc' = [pc EXCEPT ![p] = "idle"]
                /\ local' = [local EXCEPT ![p] = NoLocal]
           ELSE /\ resp' = resp
                /\ pc' = pc
                /\ local' = [local EXCEPT ![p].result = result, ![p].i = l.i + 1]
    /\ UNCHANGED <<customers, products, orders>>

\* ------------------------------------------------------------------ inputs

Names == {"A", "C"}
Emails == {"a@x.com", "b@x.com"}

Digits(n) == [i \in 1..n |-> IF i % 2 = 1 THEN "1" ELSE "0"]
GoodDash == Digits(3) \o <<"-">> \o Digits(3) \o <<"-">> \o Digits(4)
ShortDigits == Digits(5)

\* Sequences over S of length 0..n.
SeqsUpTo(S, n) == UNION {[1..k -> S] : k \in 0..n}

\* ------------------------------------------------------------------ specifications

Init ==
    /\ customers = <<>>
    /\ products = <<>>
    /\ orders = <<>>
    /\ pc = [p \in Procs |-> "idle"]
    /\ local = [p \in Procs |-> NoLocal]
    /\ resp = [op |-> "none"]

\* Customer, product and order mutations, one call after another.
SomeDate == "2024-01-01T00:00:00"
ProductIds == {1, 2, 3}

Next ==
    \/ CreateCustomer("A", "a@x.com", PNone)
    \/ \E price \in {1000, 550, 0} : CreateProduct("P", price, Omitted)
    \/ \E pids \in SeqsUpTo(ProductIds, MaxIds) : CreateOrder(1, pids, "")
    \/ \E pids \in SeqsUpTo(ProductIds, 1) : CreateOrder(2, pids, "")
    \/ CreateOrder(1, <<1>>, SomeDate)

Spec == Init /\ [][Next]_vars

\* Customer mutations and the customers query, one call after another.
CustomerPhones == {PNone, PStr(<<>>), PStr(GoodDash), PStr(ShortDigits)}

BulkRows ==
    {Row(TStr(n), TStr(e), PNone) : n \in {"A", ""}, e \in Emails}
    \cup {Row(TStr("A"), TStr("a@x.com"), PStr(ShortDigits)),
          Row(TStr("A"), TStr("b@x.com"), PNum),
          Row(TStr("A"), TStr("b@x.com"), PZero),
          Row(TStr("A"), TNone, PNone),
          Row(TNone, TStr("b@x.com"), PNone),
          NotAMapping}

NextCustomers ==
    \/ \E name \in Names, email \in Emails, phone \in CustomerPhones :
          CreateCustomer(name, email, phone)
    \/ \E input \in SeqsUpTo(BulkRows, MaxBatch) : BulkCreateCustomers(input)
    \/ resolve_customers

SpecCustomers == Init /\ [][NextCustomers]_vars

\* Product mutations and the products query, one call after another.
NextProducts ==
    \/ \E name \in {"P", "Q"}, price \in {1000, 25, 0, -500},
          stock \in {Omitted, Given(3), Given(-1)} :
           CreateProduct(name, price, stock)
    \/ resolve_products

SpecProducts == Init /\ [][NextProducts]_vars

\* Requests that overlap, each a sequence of steps with one table access.
NextConc ==
    \/ \E p \in Procs, email \in Emails : CC_Begin(p, "A", email, PNone)
    \/ \E p \in Procs : CC_Save(p)
    \/ \E p \in Procs, input \in SeqsUpTo({Row(TStr("B"), TStr("a@x.com"), PNone)}, 1) :
          BK_Begin(p, input)
    \/ \E p \in Procs : BK_Check(p)
    \/ \E p \in Procs : BK_Save(p)
    \/ \E p \in Procs : BK_Return(p)
    \/ CreateProduct("P", 1000, Omitted)
    \/ \E p \in Procs, pids \in {<<>>, <<1, 2>>} : CO_Begin(p, 1, pids, "")
    \/ \E p \in Procs : CO_Begin(p, 2, <<1>>, SomeDate)
    \/ \E p \in Procs : CO_GetProduct(p)
    \/ \E p \in Procs : CO_Save(p)
    \/ \E p \in Procs : CO_SetProducts(p)
    \/ \E p \in Procs : resolve_orders(p)
    \/ \E p \in Procs : OrderProducts(p)

SpecConc == Init /\ [][NextConc]_vars

\* ------------------------------------------------------------------ phone formats

PlusForm(n) == <<"+">> \o Digits(n)
DashForm(a, b, c) == Digits(a) \o <<"-">> \o Digits(b) \o <<"-">> \o Digits(c)

PhoneBodies ==
    {PlusForm(n) : n \in {9, 10, 15, 16}}
    \cup {DashForm(3, 3, 4), DashForm(3, 3, 3), DashForm(3, 3, 5),
          DashForm(2, 3, 4), DashForm(3, 4, 4)}
    \cup {<<>>, ShortDigits, Digits(10), <<"+">>,
          <<"1", "0", "1", "-", "1", "0", "1", "-", "1", "0", "1", "x">>,
          <<"U+0663", "U+0664", "U+0967", "-", "U+1D7D8", "U+0663", "U+0664", "-",
            "U+0967", "U+1D7D8", "U+FF13", "3">>,
          <<"+">> \o [i \in 1..10 |-> "U+FF13"]}

PhoneTails == {<<>>, <<"\n">>, <<"\n", "\n">>, <<"x">>}

PhoneStrings == {b \o t : b \in PhoneBodies, t \in PhoneTails}

PhoneValues == {PNone} \cup {PStr(s) : s \in PhoneStrings}

\* Customer mutations over many phone strings, one call after another.
NextPhone ==
    \/ \E phone \in PhoneValues : CreateCustomer("A", "a@x.com", phone)
    \/ \E phone \in PhoneValues :
          BulkCreateCustomers(<<Row(TStr("A"), TStr("b@x.com"), phone)>>)

SpecPhone == Init /\ [][NextPhone]_vars

\* ------------------------------------------------------------------ customer claims

DistinctEmails(custs) ==
    \A i, j \in 1..Len(custs) : custs[i].email = custs[j].email => i = j

\* The step returned a CreateCustomer response for these arguments.
IsCreateCustomerStep == resp'.op = "createCustomer"

CreateCustomerSucceeds ==
    /\ resp'.ok
    /\ resp'.message = MsgCustomerCreated
    /\ resp'.customer.name = resp'.name
    /\ resp'.customer.email = resp'.email
    /\ resp'.customer.phone = resp'.phone
    /\ customers' = Append(customers, resp'.customer)

CreateCustomerFailsWith(msg) ==
    /\ ~resp'.ok
    /\ resp'.message = msg
    /\ customers' = customers

\* C3 as stated: without overlap, every CreateCustomer call whose email no
\* stored Customer has succeeds, adds exactly one Customer carrying the
\* supplied name, email and phone and returns it; a call whose email is
\* already stored fails with 'Email already exists' and leaves the table
\* unchanged; so no two stored Customers share an email.
C3_FreshEmailAlwaysSucceeds ==
    /\ [][IsCreateCustomerStep =>
            IF EmailExists(customers, resp'.email)
            THEN CreateCustomerFailsWith(MsgEmailExists)
            ELSE CreateCustomerSucceeds]_vars
    /\ [](DistinctEmails(customers))

\* C3 amended: without overlap, a CreateCustomer call whose email no stored
\* Customer has and whose phone is absent, empty or in an accepted format
\* succeeds, adds exactly one Customer carrying the supplied name, email
\* and phone and returns it (with a fresh email and any other phone it
\* fails with the invalid-phone error and stores nothing); a call whose
\* email is already stored fails with 'Email already exists' and leaves the
\* table unchanged; so no two stored Customers share an email.
C3_FreshEmailValidPhoneSucceeds ==
    /\ [][IsCreateCustomerStep =>
            IF EmailExists(customers, resp'.email)
            THEN CreateCustomerFailsWith(MsgEmailExists)
            ELSE IF resp'.phone.t = "none" \/ resp'.phone.s = <<>>
                    \/ PhoneMatch(resp'.phone.s)
            THEN CreateCustomerSucceeds
            ELSE CreateCustomerFailsWith(MsgInvalidPhone)]_vars
    /\ [](DistinctEmails(customers))

\* C3 witness: a second call with an email stored by an earlier successful
\* call has just been refused.
C3_SecondCallRefused ==
    /\ resp.op = "createCustomer"
    /\ ~resp.ok
    /\ resp.message = MsgEmailExists
    /\ \E i \in 1..Len(customers) :
          customers[i].email = resp.email /\ customers[i].phone # PNone

\* The n-th row's entry of errors: errors are appended in row order.
BulkErrorOf(r, n) == r.errors[Cardinality({k \in 1..n : ~r.saved[k]})]

\* The k-th smallest element of a set of numbers.
Nth(S, k) == CHOOSE x \in S : Cardinality({y \in S : y < x}) = k - 1

HasRowPrefix(e, n) ==
    Len(e) >= 3 /\ e[1] = "Row " /\ e[2] = ToString(n) /\ e[3] = ": "

RowMatchesCustomer(item, c) ==
    /\ item.kind = "object"
    /\ item.name = TStr(c.name)
    /\ item.email = TStr(c.email)
    /\ item.phone = c.phone

\* C5: every row gives exactly one outcome, so len(customers) + len(errors)
\* = len(input); customers holds the persisted rows in input order; errors
\* holds one string per failed row in ascending row order, each beginning
\* with 'Row <n>:' for that row's 1-based index n.
C5_OneOutcomePerRowWithRowPrefix ==
    resp.op = "bulkCreateCustomers" =>
        /\ Len(resp.customers) + Len(resp.errors) = Len(resp.input)
        /\ \E F \in SUBSET (1..Len(resp.input)) :
              LET G == (1..Len(resp.input)) \ F
              IN  /\ Len(resp.errors) = Cardinality(F)
                  /\ Len(resp.customers) = Cardinality(G)
                  /\ \A j \in 1..Len(resp.errors) :
                        HasRowPrefix(resp.errors[j], Nth(F, j))
                  /\ \A k \in 1..Len(resp.customers) :
                        RowMatchesCustomer(resp.input[Nth(G, k)], resp.customers[k])

\* The table as it stood when the last bulk call began (calls do not overlap
\* and rows are only appended).
BulkTableBefore == SubSeq(customers, 1, Len(customers) - Len(resp.customers))

EarlierSavedSameEmail(r, n) ==
    \E m \in 1..(n - 1) : r.saved[m] /\ r.input[m].email = r.input[n].email

EarlierFailedSameEmail(r, n) ==
    \E m \in 1..(n - 1) :
        /\ ~r.saved[m]
        /\ r.input[m].kind = "object"
        /\ r.input[m].email = r.input[n].email

BulkNoDuplicateSaved(r) ==
    \A i, j \in 1..Len(r.customers) :
        r.customers[i].email = r.customers[j].email => i = j

BulkOnlyFailedTwinNotRejected(r, n) ==
    (/\ r.input[n].kind = "object"
     /\ TTruthy(r.input[n].email)
     /\ EarlierFailedSameEmail(r, n)
     /\ ~EarlierSavedSameEmail(r, n)
     /\ ~EmailExists(BulkTableBefore, r.input[n].email.s))
    => (r.saved[n] \/ BulkErrorOf(r, n) # RowError(n, "Email already exists"))

\* C6 as stated: in a batch, every row whose email equals that of an earlier
\* row that was persisted fails with 'Row <n>: Email already exists'; a row
\* whose email equals only that of an earlier failed row is not rejected
\* for that reason; the batch never persists two Customers with one email.
C6_DuplicateOfSavedRowGetsEmailError ==
    resp.op = "bulkCreateCustomers" =>
        /\ \A n \in 1..Len(resp.input) :
              /\ EarlierSavedSameEmail(resp, n) =>
                    /\ ~resp.saved[n]
                    /\ BulkErrorOf(resp, n) = RowError(n, "Email already exists")
              /\ BulkOnlyFailedTwinNotRejected(resp, n)
        /\ BulkNoDuplicateSaved(resp)

\* C6 amended: in a batch, every row that has a non-empty name and whose
\* email equals that of an earlier row that was persisted fails with
\* 'Row <n>: Email already exists' (such a row without a name fails with
\* 'Row <n>: Name and email are required'); a row whose email equals only
\* that of an earlier failed row is not rejected for that reason; the batch
\* never persists two Customers with one email.
C6_NamedDuplicateOfSavedRowGetsEmailError ==
    resp.op = "bulkCreateCustomers" =>
        /\ \A n \in 1..Len(resp.input) :
              /\ EarlierSavedSameEmail(resp, n) =>
                    /\ ~resp.saved[n]
                    /\ BulkErrorOf(resp, n) =
                          IF TTruthy(resp.input[n].name)
                          THEN RowError(n, "Email already exists")
                          ELSE RowError(n, "Name and email are required")
              /\ BulkOnlyFailedTwinNotRejected(resp, n)
        /\ BulkNoDuplicateSaved(resp)

\* C6 witness: a batch whose first row was persisted and whose second row,
\* with a name and the same email, was refused.
C6_SecondRowDuplicatesFirst ==
    /\ resp.op = "bulkCreateCustomers"
    /\ Len(resp.input) >= 2
    /\ resp.saved[1]
    /\ ~resp.saved[2]
    /\ TTruthy(resp.input[2].name)
    /\ resp.input[2].email = resp.input[1].email
    /\ ~EmailExists(BulkTableBefore, resp.input[1].email.s)

\* ------------------------------------------------------------------ product claims

ProductsAllValid(prods) ==
    \A i \in 1..Len(prods) : prods[i].price > 0 /\ prods[i].stock >= 0

\* C10: CreateProduct fails and leaves the Product table unchanged whenever
\* price <= 0 or stock < 0; for every price > 0 and stock >= 0 it adds
\* exactly one Product with the supplied name, price and stock, the stock
\* being 0 when the argument is omitted; so every stored Product has
\* price > 0 and stock >= 0.
C10_CreateProductValidatesPriceAndStock ==
    /\ [][resp'.op = "createProduct" =>
            LET stock == IF resp'.stock.given THEN resp'.stock.v ELSE 0
                added == [id |-> Len(products) + 1, name |-> resp'.name,
                          price |-> resp'.price, stock |-> stock]
            IN  IF resp'.price <= 0 \/ stock < 0
                THEN ~resp'.ok /\ products' = products
                ELSE /\ resp'.ok
                     /\ resp'.product = added
                     /\ products' = Append(products, added)]_vars
    /\ [](ProductsAllValid(products))

\* C10 witness: a second Product has just been added by a call that left
\* stock out, and it is stored with stock 0.
C10_ProductAddedWithDefaultStock ==
    /\ resp.op = "createProduct"
    /\ resp.ok
    /\ ~resp.stock.given
    /\ Len(products) >= 2
    /\ products[Len(products)] = resp.product
    /\ resp.product.stock = 0
    /\ resp.product.price = resp.price

\* ------------------------------------------------------------------ order claims

\* The sum of the prices of a set of product ids.
RECURSIVE SumPrices(_, _)
SumPrices(prods, ids) ==
    IF ids = {} THEN 0
    ELSE LET x == CHOOSE y \in ids : TRUE
         IN  prods[x].price + SumPrices(prods, ids \ {x})

\* C1: after every successful CreateOrder call, for every non-empty sequence
\* of existing product ids (repeated ids included), the stored Order's
\* total_amount equals the sum of the prices of the products associated
\* with the Order.
C1_TotalIsSumOfAssociatedProducts ==
    (resp.op = "createOrder" /\ resp.ok) =>
        /\ orders[resp.order.id] = resp.order
        /\ resp.order.total_amount = SumPrices(products, resp.order.products)

\* C2 as stated: CreateOrder with an empty product_ids list fails with
\* 'At least one product must be selected' whether or not customer_id
\* resolves, and creates no Order.
C2_EmptyListAlwaysValidationError ==
    [][(resp'.op = "createOrder" /\ resp'.product_ids = <<>>) =>
          /\ ~resp'.ok
          /\ resp'.message = MsgNoProducts
          /\ orders' = orders]_vars

\* C2 amended: CreateOrder with an empty product_ids list fails and creates
\* no Order whether or not customer_id resolves; the error is 'At least one
\* product must be selected' when customer_id resolves to an existing
\* Customer and 'Invalid customer ID' when it does not.
C2_EmptyListFailsCustomerCheckedFirst ==
    [][(resp'.op = "createOrder" /\ resp'.product_ids = <<>>) =>
          /\ ~resp'.ok
          /\ resp'.message = IF CustomerFound(customers, resp'.customer_id)
                             THEN MsgNoProducts ELSE MsgInvalidCustomer
          /\ orders' = orders]_vars

\* C2 witness: a call with an existing customer and an empty list has just
\* been refused, with a product in store that it could have named.
C2_EmptyListRefusedForExistingCustomer ==
    /\ resp.op = "createOrder"
    /\ resp.product_ids = <<>>
    /\ CustomerFound(customers, resp.customer_id)
    /\ Len(products) >= 1
    /\ resp.message = MsgNoProducts
    /\ orders = <<>>

\* C7: if customer_id does not resolve, or any id of product_ids at any
\* position does not resolve, CreateOrder fails, no Order and no
\* association is created and the three tables are unchanged.
C7_CreateOrderFailsWithoutEffect ==
    [][(/\ resp'.op = "createOrder"
        /\ \/ ~CustomerFound(customers, resp'.customer_id)
           \/ \E i \in 1..Len(resp'.product_ids) :
                 ~ProductFound(products, resp'.product_ids[i]))
       => (/\ ~resp'.ok
           /\ resp'.order = NoOrder
           /\ UNCHANGED <<customers, products, orders>>)]_vars

\* C7 witness: a call with an existing customer whose first product id
\* resolves and whose second does not has just been refused.
C7_RefusedAtLaterProduct ==
    /\ resp.op = "createOrder"
    /\ ~resp.ok
    /\ CustomerFound(customers, resp.customer_id)
    /\ Len(resp.product_ids) >= 2
    /\ ProductFound(products, resp.product_ids[1])
    /\ ~ProductFound(products, resp.product_ids[2])
    /\ resp.message = MsgInvalidProduct(resp.product_ids[2])
    /\ orders = <<>>

OrdersAllReferenced(ords, custs) ==
    \A i \in 1..Len(ords) :
        ords[i].products # {} /\ CustomerFound(custs, ords[i].customer)

\* C8: in every reachable state, the states a concurrent orders query sees
\* between order.save() and order.products.set() included, every Order in
\* the table references at least one Product and an existing Customer.
C8_EveryOrderHasProductAndCustomer ==
    /\ OrdersAllReferenced(orders, customers)
    /\ resp.op = "orders" => OrdersAllReferenced(resp.result, customers)

\* ------------------------------------------------------------------ race claim

\* C4: the existence check and the write of CreateCustomer are separate
\* steps: a call that has passed the check persists its Customer whatever
\* was stored in between, so two overlapping calls with one fresh email
\* that both pass the check both persist, and the table ends with two
\* Customers having that email.
C4_CheckedCallPersistsRegardless ==
    [][\A p \in Procs :
          (pc[p] = "cc_save" /\ pc'[p] = "idle") =>
              /\ Len(customers') = Len(customers) + 1
              /\ customers'[Len(customers')].email = local[p].email
              /\ \A i \in 1..Len(customers) : customers'[i] = customers[i]
              /\ resp'.op = "createCustomer"
              /\ resp'.ok]_vars

\* C4 witness: both requests have returned and two Customers stored by
\* CreateCustomer calls (name "A"; bulk rows carry "B") have the same email,
\* the later one returned as a success.
C4_TwoCustomersShareEmail ==
    /\ \A p \in Procs : pc[p] = "idle"
    /\ resp.op = "createCustomer"
    /\ resp.ok
    /\ resp.customer.name = "A"
    /\ \E i \in 1..Len(customers) :
          /\ i < resp.customer.id
          /\ customers[i].email = resp.customer.email
          /\ customers[i].name = "A"

\* ------------------------------------------------------------------ phone claim

\* The two forms as the claim reads them: '+' and 10 to 15 digits, or
\* ddd-ddd-dddd, and nothing else.
IsPlusForm(s) ==
    /\ Len(s) \in (MinPlusDigits + 1)..(MaxPlusDigits + 1)
    /\ s[1] = "+"
    /\ AllDigits(s, 2, Len(s))

IsDashForm(s) ==
    /\ Len(s) = DashGroup1 + 1 + DashGroup2 + 1 + DashGroup3
    /\ \A i \in 1..Len(s) :
          IF i \in {DashGroup1 + 1, DashGroup1 + 1 + DashGroup2 + 1}
          THEN s[i] = "-" ELSE IsDigit(s[i])

InAcceptedForm(phone) ==
    phone.t = "str" /\ (IsPlusForm(phone.s) \/ IsDashForm(phone.s))

\* C9: for every phone string in neither form (the empty string and an
\* accepted form with trailing characters such as a newline included),
\* CreateCustomer fails with the invalid-phone error and
\* BulkCreateCustomers records 'Row <n>: Invalid phone format', and no
\* Customer is persisted for it; a phone in one of the forms, or an absent
\* phone, is accepted. (Calls refused for their email are left aside.)
C9_PhoneOutsideFormsRejected ==
    /\ (resp.op = "createCustomer" /\ resp.message # MsgEmailExists) =>
          IF resp.phone = PNone \/ InAcceptedForm(resp.phone)
          THEN resp.ok /\ customers[resp.customer.id] = resp.customer
          ELSE ~resp.ok /\ resp.message = MsgInvalidPhone
    /\ (/\ resp.op = "bulkCreateCustomers"
        /\ Len(resp.input) = 1
        /\ resp.errors # <<RowError(1, "Email already exists")>>) =>
          IF resp.input[1].phone = PNone \/ InAcceptedForm(resp.input[1].phone)
          THEN resp.saved[1] /\ resp.errors = <<>>
          ELSE ~resp.saved[1] /\ resp.errors = <<RowError(1, "Invalid phone format")>>

====
